---- MODULE Spec2Model ----
(***************************************************************************)
(* homebridge-smart-envi: the platform's authenticated fetch with its      *)
(* re-login on 403 (platform.ts) and one accessory's poll loop, snapshot   *)
(* and characteristic writes (platformAccessory.ts), against a vendor      *)
(* server that may answer any request with any status.                     *)
(*                                                                         *)
(* Every async call chain of the program is a task: "main" is the          *)
(* didFinishLaunching handler, "poll" the accessory's timer loop, and the  *)
(* writers are HomeKit set handlers running concurrently.  A task is       *)
(* suspended at a network await and where a promise it awaits resolves     *)
(* after the awaited function wrote platform.authToken or accessory.data;  *)
(* one action is the code a task runs between two such points.  Numbers    *)
(* the code computes with are IEEE 754 doubles.                            *)
(***************************************************************************)
EXTENDS Integers, Sequences, FiniteSets, TLC

\* ------------------------------------------------------------- bounds
MaxWrites == 1     \* set-handler calls HomeKit makes in one run
Max403 == 2        \* 403 responses the server gives in one run (Spec only)
MaxDepth == 2      \* nested authorize() calls the server provokes
CountCap == 3      \* counters saturate here
MaxUnitWrites == 2 \* set-handler calls in one run of UnitSpec
MaxRaceWrites == 2 \* night-light calls in one run of RaceSpec

Writers == {"w1"}
\* Two set handlers running at once (RaceSpec).
RaceWriters == {"w1", "w2"}

Inc(n) == IF n < CountCap THEN n + 1 ELSE n

\* ------------------------------------------------------------- numbers
\* A JavaScript number is an IEEE 754 double: sign, 53-bit significand and
\* exponent, here [neg, hi, lo, exp] with value (hi * 2^26 + lo) * 2^exp and
\* 2^52 <= hi * 2^26 + lo < 2^53, or Zero.  The significand is computed on
\* little-endian sequences of 13-bit limbs; every operation rounds its exact
\* result to the nearest double, ties to even.  The values at hand are far
\* from the subnormal and the infinite range.
MantissaBits == 53
LimbBits == 13
Base == 2 ^ LimbBits

Zeros(k) == [i \in 1..k |-> 0]

Limb(a, i) == IF i >= 1 /\ i <= Len(a) THEN a[i] ELSE 0

RECURSIVE Trim(_)
Trim(a) == IF a # <<>> /\ a[Len(a)] = 0 THEN Trim(SubSeq(a, 1, Len(a) - 1)) ELSE a

RECURSIVE Carry(_, _, _)
Carry(cols, i, c) ==
    IF i > Len(cols)
    THEN IF c = 0 THEN <<>> ELSE <<c % Base>> \o Carry(cols, i, c \div Base)
    ELSE LET s == cols[i] + c
         IN  <<s % Base>> \o Carry(cols, i + 1, s \div Base)

Limbs(cols) == Trim(Carry(cols, 1, 0))

Longer(a, b) == IF Len(a) > Len(b) THEN Len(a) ELSE Len(b)

AddLimbs(a, b) == Limbs([i \in 1..Longer(a, b) |-> Limb(a, i) + Limb(b, i)])

RECURSIVE Borrow(_, _, _, _)
Borrow(a, b, i, c) ==
    IF i > Len(a) THEN <<>>
    ELSE LET s == a[i] - Limb(b, i) - c
         IN  <<s % Base>> \o Borrow(a, b, i + 1, IF s < 0 THEN 1 ELSE 0)

\* a - b for a >= b
SubLimbs(a, b) == Trim(Borrow(a, b, 1, 0))

RECURSIVE LessFrom(_, _, _)
LessFrom(a, b, i) ==
    IF i = 0 THEN FALSE
    ELSE IF Limb(a, i) # Limb(b, i) THEN Limb(a, i) < Limb(b, i)
    ELSE LessFrom(a, b, i - 1)

LessLimbs(a, b) == LessFrom(a, b, Longer(a, b))

RECURSIVE Column(_, _, _, _)
Column(a, b, k, i) ==
    IF i > Len(a) THEN 0 ELSE a[i] * Limb(b, k + 1 - i) + Column(a, b, k, i + 1)

MulLimbs(a, b) == Limbs([k \in 1..(Len(a) + Len(b)) |-> Column(a, b, k, 1)])

\* a * 2^k
ShiftLeft(a, k) ==
    Trim(Zeros(k \div LimbBits) \o Limbs([i \in 1..Len(a) |-> a[i] * 2 ^ (k % LimbBits)]))

\* a \div 2^k
ShiftRight(a, k) ==
    LET q == k \div LimbBits
        r == k % LimbBits
        b == SubSeq(a, q + 1, Len(a))
    IN  Trim([i \in 1..Len(b) |->
                 b[i] \div 2 ^ r + (Limb(b, i + 1) % 2 ^ r) * 2 ^ (LimbBits - r)])

\* bit k of a, bit 1 the lowest
BitAt(a, k) == (Limb(a, (k - 1) \div LimbBits + 1) \div 2 ^ ((k - 1) % LimbBits)) % 2

BitLen(a) ==
    IF a = <<>> THEN 0
    ELSE (Len(a) - 1) * LimbBits
         + (CHOOSE n \in 1..LimbBits : 2 ^ (n - 1) <= a[Len(a)] /\ a[Len(a)] < 2 ^ n)

\* n steps of binary long division of rem < 2 * d by d
RECURSIVE Digit(_, _, _)
Digit(rem, d, n) ==
    IF n = 0 THEN [q |-> 0, r |-> rem]
    ELSE IF LessLimbs(rem, d)
         THEN Digit(ShiftLeft(rem, 1), d, n - 1)
         ELSE LET rest == Digit(ShiftLeft(SubLimbs(rem, d), 1), d, n - 1)
              IN  [q |-> 2 ^ (n - 1) + rest.q, r |-> rest.r]

RECURSIVE DivLimbs(_, _, _)
DivLimbs(rem, d, n) ==
    IF n = 0 THEN [q |-> <<>>, r |-> rem]
    ELSE LET step == Digit(rem, d, LimbBits)
         IN  IF step.q = 0
             THEN LET rest == DivLimbs(step.r, d, n - 1)
                  IN  [q |-> rest.q \o <<0>>, r |-> rest.r]
             ELSE LET rest == DivLimbs(step.r, d, n - 1)
                  IN  [q |-> rest.q \o <<step.q>>, r |-> rest.r]

QuotientLimbs == 5

Zero == [neg |-> FALSE, hi |-> 0, lo |-> 0, exp |-> 0]

Pack(neg, m, e) ==
    [neg |-> neg,
     hi  |-> Limb(m, 3) + Limb(m, 4) * Base + Limb(m, 5) * Base * Base,
     lo  |-> Limb(m, 1) + Limb(m, 2) * Base,
     exp |-> e]

Mantissa(x) ==
    Trim(<<x.lo % Base, x.lo \div Base,
           x.hi % Base, (x.hi \div Base) % Base, x.hi \div (Base * Base)>>)

\* The double nearest to (bits + a fraction, nonzero iff sticky) * 2^e.
Round(neg, bits, sticky, e) ==
    LET a == Trim(bits)
        k == BitLen(a) - MantissaBits
    IN  IF a = <<>> THEN Zero
        ELSE IF k <= 0 THEN Pack(neg, ShiftLeft(a, -k), e + k)
        ELSE LET kept == ShiftRight(a, k)
                 rest == sticky \/ ShiftLeft(ShiftRight(a, k - 1), k - 1) # a
                 up   == BitAt(a, k) = 1 /\ (rest \/ BitAt(kept, 1) = 1)
                 m    == IF up THEN AddLimbs(kept, <<1>>) ELSE kept
             IN  IF BitLen(m) > MantissaBits
                 THEN Pack(neg, ShiftRight(m, 1), e + k + 1)
                 ELSE Pack(neg, m, e + k)

\* An integer below 2^31 as a double.
Whole(n) == Round(n < 0, Limbs(<<IF n < 0 THEN -n ELSE n>>), FALSE, 0)

\* x * y
Times(x, y) ==
    Round(x.neg # y.neg, MulLimbs(Mantissa(x), Mantissa(y)), FALSE, x.exp + y.exp)

\* x + y
Plus(x, y) ==
    LET e  == IF x.exp < y.exp THEN x.exp ELSE y.exp
        ax == ShiftLeft(Mantissa(x), x.exp - e)
        ay == ShiftLeft(Mantissa(y), y.exp - e)
    IN  IF x = Zero THEN y
        ELSE IF y = Zero THEN x
        ELSE IF x.neg = y.neg THEN Round(x.neg, AddLimbs(ax, ay), FALSE, e)
        ELSE IF LessLimbs(ax, ay) THEN Round(y.neg, SubLimbs(ay, ax), FALSE, e)
        ELSE Round(x.neg, SubLimbs(ax, ay), FALSE, e)

Negated(x) == IF x = Zero THEN Zero ELSE [x EXCEPT !.neg = ~x.neg]

\* x - y
Minus(x, y) == Plus(x, Negated(y))

\* x < y
Less(x, y) == Minus(x, y).neg

\* x / y for y # 0
Over(x, y) ==
    LET d == DivLimbs(Mantissa(x), Mantissa(y), QuotientLimbs)
    IN  IF x = Zero THEN Zero
        ELSE Round(x.neg # y.neg, d.q, d.r # <<>>,
                   x.exp - y.exp - (QuotientLimbs * LimbBits - 1))

ToNat(a) == Limb(a, 1) + Limb(a, 2) * Base + Limb(a, 3) * Base * Base

\* Math.round: the nearest integer, a tie going up.
MathRound(x) ==
    LET m     == Mantissa(x)
        k     == -x.exp
        whole == ToNat(ShiftRight(m, k))
        half  == BitAt(m, k) = 1
        low   == ShiftLeft(ShiftRight(m, k - 1), k - 1) # m
    IN  IF x.exp >= 0 THEN (IF x.neg THEN -1 ELSE 1) * ToNat(ShiftLeft(m, x.exp))
        ELSE IF ~x.neg THEN whole + (IF half THEN 1 ELSE 0)
        ELSE -(whole + (IF half /\ low THEN 1 ELSE 0))

Largest(x, y) == IF Less(x, y) THEN y ELSE x

Smallest(x, y) == IF Less(y, x) THEN y ELSE x

\* The number a decimal with one fractional digit denotes, as JSON.parse and
\* a numeric literal give it: Num(698) is 69.8.
Num(tenths) == Over(Whole(tenths), Whole(10))

\* ------------------------------------------------------------- values
NullToken == "null"          \* authToken: string | null = null
EmptyToken == ""             \* this.authToken = ""
TokenNames == <<"T1", "T2", "T3", "T4", "T5">>   \* tokens the login endpoint hands out
Undefined == "undefined"     \* the token of a login body that has none
NoAuth == "none"             \* a request without Authorization header

COMM == "SERVICE_COMMUNICATION_FAILURE"
AUTH == "INSUFFICIENT_AUTHORIZATION"
BUSY == "RESOURCE_BUSY"
SYNTAX == "SyntaxError"
TYPE == "TypeError"
OK == "ok"
Errors == {COMM, AUTH, BUSY, SYNTAX, TYPE}

\* 0 stands for a transport failure (the global fetch rejects).
TransportFailure == 0
Statuses == {TransportFailure, 200, 204, 401, 403, 500}

NoBody == [none |-> TRUE]
BadJson == [malformed |-> TRUE]     \* a 200 body that json() rejects
NullData == [null |-> TRUE]         \* data: DeviceData = null
UndefinedData == [undefined |-> TRUE]   \* the data of a status body that has none
NoDataField == [nodata |-> TRUE]    \* a JSON body without the field "data"
NullJson == [jsonnull |-> TRUE]     \* the JSON body null

\* The vendor's device record (OnlineDeviceData).
InitialNightLight ==
    [brightness |-> 10, auto |-> FALSE, on |-> TRUE, off |-> FALSE,
     color |-> [r |-> 1, g |-> 2, b |-> 3]]
InitialDevice ==
    [state |-> 1, temperature_unit |-> "F", current_temperature |-> Whole(70),
     night_light_setting |-> InitialNightLight]

NoReq == [kind |-> "none", auth |-> NoAuth, body |-> NoBody]
NoResp == [status |-> -1, body |-> NoBody]
NoBase == [kind |-> "none", body |-> NoBody]
NoArgs == [none |-> TRUE]

IdleTask ==
    [pc |-> "idle", op |-> "none", stage |-> "none", depth |-> 0,
     base |-> NoBase, req |-> NoReq, resp |-> NoResp,
     sends |-> 0, logins |-> 0, tok |-> NoAuth, result |-> "none",
     refreshes |-> 0, args |-> NoArgs]

VARIABLES
    hasCreds,     \* config.username and config.password are both set
    authToken,    \* platform.authToken
    created,      \* the accessory object exists (its constructor has run)
    data,         \* accessory.data, the Device Snapshot
    timer,        \* the setTimeout(poll) calls that are pending
    dev,          \* the device record the vendor server holds
    task,         \* every call chain: its position and its request in flight
    writes,       \* set-handler calls made so far
    loginCount,   \* authorize() invocations in the run
    n403,         \* 403 responses given in the run
    everLoaded    \* some updateStatus() has completed

vars == <<hasCreds, authToken, created, data, timer, dev, task, writes,
          loginCount, n403, everLoaded>>

\* The call chains of the run: startup, the poll loop and the set handlers.
Tasks == DOMAIN task

\* ------------------------------------------------------------- pure parts

\* fetch: ...(this.authToken ? { Authorization: "Bearer " + token } : {})
Held(tok) == tok \notin {NullToken, EmptyToken, Undefined}
AuthHeader(tok) == IF Held(tok) THEN tok ELSE NoAuth

Request(tok, kind, body) == [kind |-> kind, auth |-> AuthHeader(tok), body |-> body]

\* Response.ok
ResponseOk(status) == status >= 200 /\ status <= 299

\* fetch: what the code after the awaited global fetch does with a response.
fetchOutcomeNo401(status) ==
    IF status = TransportFailure THEN COMM
    ELSE IF status = 403 THEN "reauthorize"
    ELSE IF ~ResponseOk(status) THEN COMM
    ELSE IF status # 200 THEN COMM
    ELSE "return"

fetchOutcomeNotOkAsAuth(status) ==
    IF status = TransportFailure THEN COMM
    ELSE IF status = 403 THEN "reauthorize"
    ELSE IF status = 401 THEN AUTH
    ELSE IF ~ResponseOk(status) THEN AUTH
    ELSE IF status # 200 THEN COMM
    ELSE "return"

fetchOutcome(status) ==
    IF status = TransportFailure THEN COMM
    ELSE IF status = 403 THEN "reauthorize"
    ELSE IF status = 401 THEN AUTH
    ELSE IF ~ResponseOk(status) THEN COMM
    ELSE IF status # 200 THEN COMM
    ELSE "return"

\* fetch, 403 branch: this.authToken = ""
KeptToken(tok) == tok

ExpiredToken(tok) == EmptyToken

\* authorize: this.authToken = authToken (the token of the login response)
DroppedToken(body) == EmptyToken

LoginToken(body) == body.token

\* updateStatus: this.data = data
MergedSnapshot(old, body) ==
    IF old = NullData \/ body = NullData THEN body
    ELSE [old EXCEPT !.night_light_setting = body.night_light_setting]

InstalledSnapshot(old, body) == body

\* guardedOnlineData: throws RESOURCE_BUSY while data is null
UnguardedData(d) == [err |-> "none", value |-> d]

guardedOnlineData(d) ==
    IF d = NullData THEN [err |-> BUSY, value |-> NullData]
    ELSE [err |-> "none", value |-> d]

\* updateNightLightSettings: { ...night_light_setting, ...settings }
PartialOnly(nl, settings) == settings

SnapshotLast(nl, settings) ==
    [f \in (DOMAIN nl) \cup (DOMAIN settings) |->
        IF f \in DOMAIN nl THEN nl[f] ELSE settings[f]]

Merge(nl, settings) ==
    [f \in (DOMAIN nl) \cup (DOMAIN settings) |->
        IF f \in DOMAIN settings THEN settings[f] ELSE nl[f]]

\* cToF: c * (9 / 5) + 32
NineFifths == Over(Whole(9), Whole(5))

cToFNoOffset(c) == Times(c, NineFifths)

cToF(c) == Plus(Times(c, NineFifths), Whole(32))

\* TargetTemperature onSet: the value is converted when the snapshot's unit
\* is "F".
temperatureSwapped(unit, value) == IF unit = "C" THEN cToF(value) ELSE value

temperature(unit, value) == IF unit = "F" THEN cToF(value) ELSE value

\* convert.rgb.hsv of color-convert, rounded as its wrapper does
rgbToHsv(c) ==
    LET r == Over(Whole(c.r), Whole(255))
        g == Over(Whole(c.g), Whole(255))
        b == Over(Whole(c.b), Whole(255))
        v == Largest(Largest(r, g), b)
        diff == Minus(v, Smallest(Smallest(r, g), b))
        diffc(x) == Plus(Over(Over(Minus(v, x), Whole(6)), diff),
                         Over(Whole(1), Whole(2)))
        rdif == diffc(r)
        gdif == diffc(g)
        bdif == diffc(b)
        h0 == IF r = v THEN Minus(bdif, gdif)
              ELSE IF g = v THEN Minus(Plus(Over(Whole(1), Whole(3)), rdif), bdif)
              ELSE Minus(Plus(Over(Whole(2), Whole(3)), gdif), rdif)
        h == IF diff = Zero THEN Zero
             ELSE IF Less(h0, Zero) THEN Plus(h0, Whole(1))
             ELSE IF Less(Whole(1), h0) THEN Minus(h0, Whole(1))
             ELSE h0
        s == IF diff = Zero THEN Zero ELSE Over(diff, v)
    IN  [h |-> MathRound(Times(h, Whole(360))),
         s |-> MathRound(Times(s, Whole(100))),
         v |-> MathRound(Times(v, Whole(100)))]

\* convert.hsv.rgb of color-convert, for whole h, s and v, rounded likewise
hsvToRgb(c) ==
    LET h == Over(Whole(c.h), Whole(60))
        s == Over(Whole(c.s), Whole(100))
        v == Over(Whole(c.v), Whole(100))
        floor == c.h \div 60
        hi == floor % 6
        f == Minus(h, Whole(floor))
        full == Times(Whole(255), v)
        p == MathRound(Times(full, Minus(Whole(1), s)))
        q == MathRound(Times(full, Minus(Whole(1), Times(s, f))))
        t == MathRound(Times(full, Minus(Whole(1), Times(s, Minus(Whole(1), f)))))
        w == MathRound(Times(v, Whole(255)))
    IN  IF hi = 0 THEN [r |-> w, g |-> t, b |-> p]
        ELSE IF hi = 1 THEN [r |-> q, g |-> w, b |-> p]
        ELSE IF hi = 2 THEN [r |-> p, g |-> w, b |-> t]
        ELSE IF hi = 3 THEN [r |-> p, g |-> q, b |-> w]
        ELSE IF hi = 4 THEN [r |-> t, g |-> p, b |-> w]
        ELSE [r |-> w, g |-> p, b |-> q]

\* ------------------------------------------------------------- the vendor server

\* What the endpoints do to the device record on a 200.
ApplyPatch(d, kind, body) ==
    IF kind = "night" THEN [d EXCEPT !.night_light_setting = body]
    ELSE IF kind = "temp" THEN
        IF "state" \in DOMAIN body THEN [d EXCEPT !.state = body.state]
        ELSE [d EXCEPT !.current_temperature = body.temperature]
    ELSE IF kind = "user" THEN [d EXCEPT !.temperature_unit = body.temperature_unit]
    ELSE d

\* The bodies a 200 of each endpoint may carry: the documented one, or text
\* that is not JSON where the code parses the body.
Bodies(kind, d) ==
    IF kind = "login" THEN {[token |-> TokenNames[loginCount]], BadJson}
    ELSE IF kind = "list" THEN {[devices |-> 0], [devices |-> 1], BadJson}
    ELSE IF kind = "status" THEN {d, BadJson}
    ELSE IF kind = "temp" THEN {NoBody, BadJson}
    ELSE {NoBody}

\* The server answers the request of task t; limited: within the 403 budget.
Respond(t, limited) ==
    LET r == task[t] IN
    /\ r.pc = "sent"
    /\ \E s \in Statuses :
        /\ s = 403 => /\ limited => n403 < Max403
                      /\ r.req.kind = "login" => r.depth < MaxDepth
        /\ dev' = IF s = 200 THEN ApplyPatch(dev, r.req.kind, r.req.body) ELSE dev
        /\ \E b \in (IF s = 200 THEN Bodies(r.req.kind, dev') ELSE {NoBody}) :
              task' = [task EXCEPT ![t] =
                          [r EXCEPT !.pc = "responded",
                                    !.resp = [status |-> s, body |-> b]]]
        /\ n403' = IF s = 403 THEN Inc(n403) ELSE n403
    /\ UNCHANGED <<hasCreds, authToken, created, data, timer, writes,
                   loginCount, everLoaded>>

ServerRespond(t) == Respond(t, TRUE)

ServerRespondAny(t) == Respond(t, FALSE)

\* ------------------------------------------------------------- call chains

AnyPatch(kind) == kind \in {"temp", "night", "user"}

DevicePatch(kind) == kind \in {"temp", "night"}

\* The call chain of t ends: a writer's and main's outcome go to the caller,
\* poll() logs a failure and arms the next timer either way.
EndsArmsTimer(t, res) ==
    /\ task' = [task EXCEPT ![t] =
                  IF t = "poll" THEN [IdleTask EXCEPT !.result = res]
                  ELSE [IdleTask EXCEPT !.pc = "done", !.op = task[t].op,
                                        !.refreshes = task[t].refreshes,
                                        !.result = res]]
    /\ timer' = timer + 1

EndsCaught(t, res) ==
    /\ task' = [task EXCEPT ![t] =
                  IF t = "poll" THEN [IdleTask EXCEPT !.result = res]
                  ELSE [IdleTask EXCEPT !.pc = "done", !.op = task[t].op,
                                        !.refreshes = task[t].refreshes,
                                        !.result = OK]]
    /\ timer' = IF t = "poll" THEN timer + 1 ELSE timer

Ends(t, res) ==
    /\ task' = [task EXCEPT ![t] =
                  IF t = "poll" THEN [IdleTask EXCEPT !.result = res]
                  ELSE [IdleTask EXCEPT !.pc = "done", !.op = task[t].op,
                                        !.refreshes = task[t].refreshes,
                                        !.result = res]]
    /\ timer' = IF t = "poll" THEN timer + 1 ELSE timer

\* fetch: the awaited global fetch rejected, or the status is 401, not ok or
\* not 200: the error goes up through every caller to the end of the chain.
FetchThrows(t) ==
    LET r == task[t]
        e == fetchOutcome(r.resp.status) IN
    /\ r.pc = "responded"
    /\ e \in Errors
    /\ Ends(t, e)
    /\ UNCHANGED <<hasCreds, authToken, created, data, dev, writes,
                   loginCount, n403, everLoaded>>

\* fetch, status 403: the token is cleared, then the body text is awaited.
Fetch403(t) ==
    LET r == task[t] IN
    /\ r.pc = "responded"
    /\ fetchOutcome(r.resp.status) = "reauthorize"
    /\ authToken' = ExpiredToken(authToken)
    /\ task' = [task EXCEPT ![t] = [r EXCEPT !.pc = "expired"]]
    /\ UNCHANGED <<hasCreds, created, data, timer, dev, writes,
                   loginCount, n403, everLoaded>>

\* authorize, up to its awaited fetch: the token is emptied, the login is sent.
authorize(r) ==
    [r EXCEPT !.pc = "sent", !.depth = @ + 1,
              !.req = Request(EmptyToken, "login", NoBody), !.resp = NoResp,
              !.logins = IF r.depth = 0 THEN Inc(@) ELSE @]

\* fetch, 403 branch after the body text: await this.authorize()
Reauthorize(t) ==
    LET r == task[t] IN
    /\ r.pc = "expired"
    /\ authToken' = EmptyToken
    /\ loginCount' = Inc(loginCount)
    /\ task' = [task EXCEPT ![t] = authorize(r)]
    /\ UNCHANGED <<hasCreds, created, data, timer, dev, writes, n403,
                   everLoaded>>

\* The didFinishLaunching handler: await this.authorize()
DidFinishLaunchingNoLogin ==
    /\ hasCreds
    /\ task["main"].pc = "idle"
    /\ task' = [task EXCEPT !["main"] =
                  [IdleTask EXCEPT !.pc = "sent", !.op = "startup",
                                   !.stage = "discover",
                                   !.base = [kind |-> "list", body |-> NoBody],
                                   !.req = Request(authToken, "list", NoBody),
                                   !.sends = 1]]
    /\ UNCHANGED <<hasCreds, authToken, created, data, timer, dev, writes,
                   loginCount, n403, everLoaded>>

DidFinishLaunching ==
    /\ hasCreds
    /\ task["main"].pc = "idle"
    /\ authToken' = EmptyToken
    /\ loginCount' = Inc(loginCount)
    /\ task' = [task EXCEPT !["main"] =
                  [authorize([IdleTask EXCEPT !.depth = 0]) EXCEPT
                       !.op = "startup", !.stage = "authorize", !.logins = 0]]
    /\ UNCHANGED <<hasCreds, created, data, timer, dev, writes, n403,
                   everLoaded>>

\* authorize after its login response: json() rejects a malformed body, the
\* destructuring throws on the body null and on a body without data,
\* otherwise data.token is stored, be it undefined, and authorize's promise
\* resolves.
LoginOK(t) ==
    LET r == task[t] IN
    /\ r.pc = "responded"
    /\ r.req.kind = "login"
    /\ fetchOutcome(r.resp.status) = "return"
    /\ IF r.resp.body = BadJson THEN
          Ends(t, SYNTAX) /\ UNCHANGED authToken
       ELSE IF r.resp.body \in {NoDataField, NullJson} THEN
          Ends(t, TYPE) /\ UNCHANGED authToken
       ELSE
          /\ authToken' = LoginToken(r.resp.body)
          /\ task' = [task EXCEPT ![t] =
                [r EXCEPT !.pc = "authorized", !.tok = r.resp.body.token]]
          /\ timer' = timer
    /\ UNCHANGED <<hasCreds, created, data, dev, writes,
                   loginCount, n403, everLoaded>>

\* The caller of authorize() goes on, one promise job after the token was
\* stored: the handler calls discoverDevices, which sends the list request,
\* and the 403 branch of fetch sends its request again; either reads the
\* token as it is by then.
AfterAuthorize(t) ==
    LET r == task[t]
        d == r.depth - 1 IN
    /\ r.pc = "authorized"
    /\ IF d > 0 THEN
          /\ task' = [task EXCEPT ![t] =
                [r EXCEPT !.pc = "sent", !.depth = d, !.resp = NoResp,
                          !.req = Request(authToken, "login", NoBody)]]
       ELSE IF r.stage = "authorize" THEN
          /\ task' = [task EXCEPT ![t] =
                [r EXCEPT !.pc = "sent", !.depth = 0, !.resp = NoResp,
                          !.stage = "discover",
                          !.base = [kind |-> "list", body |-> NoBody],
                          !.req = Request(authToken, "list", NoBody), !.sends = 1]]
       ELSE
          /\ task' = [task EXCEPT ![t] =
                [r EXCEPT !.pc = "sent", !.depth = 0, !.resp = NoResp,
                          !.req = Request(authToken, r.base.kind, r.base.body),
                          !.sends = Inc(@)]]
    /\ UNCHANGED <<hasCreds, authToken, created, data, timer, dev, writes,
                   loginCount, n403, everLoaded>>

\* poll: this.updateStatus() sends the status GET.
PollTask ==
    [IdleTask EXCEPT !.pc = "sent", !.op = "status", !.stage = "poll",
                     !.base = [kind |-> "status", body |-> NoBody],
                     !.req = Request(authToken, "status", NoBody), !.sends = 1]

\* discoverDevices after the list response: one accessory per listed device,
\* whose constructor ends with this.poll().
ListOK ==
    LET r == task["main"] IN
    /\ r.pc = "responded"
    /\ r.req.kind = "list"
    /\ fetchOutcome(r.resp.status) = "return"
    /\ IF r.resp.body = BadJson THEN
          Ends("main", SYNTAX) /\ UNCHANGED created
       ELSE IF r.resp.body \in {NoDataField, NullJson} THEN
          Ends("main", TYPE) /\ UNCHANGED created
       ELSE IF r.resp.body.devices = 0 THEN
          Ends("main", OK) /\ UNCHANGED created
       ELSE
          /\ created' = TRUE
          /\ timer' = timer
          /\ task' = [task EXCEPT
                 !["main"] = [IdleTask EXCEPT !.pc = "done", !.op = r.op,
                                              !.result = OK],
                 !["poll"] = PollTask]
    /\ UNCHANGED <<hasCreds, authToken, data, dev, writes, loginCount,
                   n403, everLoaded>>

\* The timer set by poll() fires: poll() runs again.
TimerFires ==
    /\ timer > 0
    /\ task["poll"].pc = "idle"
    /\ timer' = timer - 1
    /\ task' = [task EXCEPT !["poll"] = PollTask]
    /\ UNCHANGED <<hasCreds, authToken, created, data, dev, writes,
                   loginCount, n403, everLoaded>>

\* updateStatus after its response: json() rejects a malformed body and the
\* destructuring throws on the body null; otherwise the body's data replaces
\* the snapshot, be it null or undefined, and updateStatus's promise resolves.
StatusOK(t) ==
    LET r == task[t] IN
    /\ r.pc = "responded"
    /\ r.req.kind = "status"
    /\ fetchOutcome(r.resp.status) = "return"
    /\ IF r.resp.body = BadJson THEN
          /\ Ends(t, SYNTAX)
          /\ UNCHANGED <<data, everLoaded>>
       ELSE IF r.resp.body = NullJson THEN
          /\ Ends(t, TYPE)
          /\ UNCHANGED <<data, everLoaded>>
       ELSE
          /\ data' = InstalledSnapshot(data, r.resp.body)
          /\ everLoaded' = TRUE
          /\ task' = [task EXCEPT ![t] = [r EXCEPT !.pc = "installed"]]
          /\ timer' = timer
    /\ UNCHANGED <<hasCreds, authToken, created, dev, writes,
                   loginCount, n403>>

\* The caller of updateStatus() goes on, some promise jobs after the snapshot
\* was written: poll() arms the next timer, a set handler returns.
AfterUpdateStatus(t) ==
    /\ task[t].pc = "installed"
    /\ Ends(t, OK)
    /\ UNCHANGED <<hasCreds, authToken, created, data, dev, writes,
                   loginCount, n403, everLoaded>>


\* ------------------------------------------------------------- characteristic handlers

\* Values HomeKit writes.
TargetStates == {0}
Brightnesses == {50}
OnValues == {FALSE}
Hues == {120}
Saturations == {50}

CanCall(w) ==
    /\ created
    /\ writes < MaxWrites
    /\ task[w].pc \in {"idle", "done"}

\* A set handler sends its PATCH through platform.fetch.
SendsPatch(w, op, kind, body, args) ==
    /\ task' = [task EXCEPT ![w] =
          [IdleTask EXCEPT !.pc = "sent", !.op = op, !.stage = "patch",
                           !.base = [kind |-> kind, body |-> body],
                           !.req = Request(authToken, kind, body),
                           !.sends = 1, !.args = args]]

\* A set handler throws before any request is sent.
Throws(w, op, e) ==
    /\ task' = [task EXCEPT ![w] =
          [IdleTask EXCEPT !.pc = "done", !.op = op, !.result = e]]

\* updateThermostat(body), up to its awaited fetch
updateThermostat(w, body) ==
    SendsPatch(w, "thermostat", "temp", body, NoArgs)

\* updateNightLightSettings(settings), up to its awaited fetch
updateNightLightSettings(w, settings) ==
    LET g == guardedOnlineData(data) IN
    IF g.err = BUSY THEN Throws(w, "nightlight", BUSY)
    ELSE IF g.value \in {NullData, UndefinedData} THEN Throws(w, "nightlight", TYPE)
    ELSE SendsPatch(w, "nightlight", "night",
                    Merge(g.value.night_light_setting, settings),
                    [settings |-> settings, nl |-> data.night_light_setting])

\* TargetHeatingCoolingState onSet
SetTargetHeatingCoolingState(w) ==
    /\ CanCall(w)
    /\ \E v \in TargetStates : updateThermostat(w, [state |-> v])
    /\ writes' = writes + 1
    /\ UNCHANGED <<hasCreds, authToken, created, data, timer, dev,
                   loginCount, n403, everLoaded>>

\* On onSet
SetOn(w) ==
    /\ CanCall(w)
    /\ \E v \in OnValues :
          updateNightLightSettings(w, [on |-> v, off |-> ~v, auto |-> FALSE])
    /\ writes' = writes + 1
    /\ UNCHANGED <<hasCreds, authToken, created, data, timer, dev,
                   loginCount, n403, everLoaded>>

\* Brightness onSet
SetBrightness(w) ==
    /\ CanCall(w)
    /\ \E b \in Brightnesses : updateNightLightSettings(w, [brightness |-> b])
    /\ writes' = writes + 1
    /\ UNCHANGED <<hasCreds, authToken, created, data, timer, dev,
                   loginCount, n403, everLoaded>>

\* updateThermostat / updateNightLightSettings after the PATCH response:
\* updateThermostat parses the body for its log line, then both await
\* this.updateStatus(), which sends the status GET.
PatchOK(w) ==
    LET r == task[w] IN
    /\ r.pc = "responded"
    /\ DevicePatch(r.req.kind)
    /\ fetchOutcome(r.resp.status) = "return"
    /\ IF r.resp.body = BadJson THEN
          /\ Ends(w, SYNTAX)
       ELSE
          /\ task' = [task EXCEPT ![w] =
                [r EXCEPT !.pc = "sent", !.stage = "refresh", !.resp = NoResp,
                          !.base = [kind |-> "status", body |-> NoBody],
                          !.req = Request(authToken, "status", NoBody),
                          !.sends = 1, !.logins = 0, !.tok = NoAuth,
                          !.refreshes = @ + 1]]
          /\ timer' = timer
    /\ UNCHANGED <<hasCreds, authToken, created, data, dev, writes,
                   loginCount, n403, everLoaded>>

\* ------------------------------------------------------------- temperature and unit handlers

\* Characteristic.TemperatureDisplayUnits: CELSIUS = 0, FAHRENHEIT = 1
FAHRENHEIT == 1
DisplayUnits == {0, 1}
\* Celsius values HomeKit writes: 21 and 70 degrees.
TargetTemperatures == {Num(210), Num(700)}
\* What the handler sends for each of them, computed once.
TemperatureSent ==
    [unit \in {"C", "F"}, value \in TargetTemperatures |-> temperature(unit, value)]

CanCallUnits(w) ==
    /\ created
    /\ writes < MaxUnitWrites
    /\ task[w].pc \in {"idle", "done"}

\* TargetTemperature onSet, up to the fetch awaited in updateThermostat
SetTargetTemperature(w) ==
    /\ CanCallUnits(w)
    /\ \E value \in TargetTemperatures :
          LET g == guardedOnlineData(data) IN
          IF g.err = BUSY THEN Throws(w, "thermostat", BUSY)
          ELSE IF g.value \in {NullData, UndefinedData} THEN
              Throws(w, "thermostat", TYPE)
          ELSE SendsPatch(w, "thermostat", "temp",
                          [temperature |->
                              TemperatureSent[g.value.temperature_unit, value]],
                          [value |-> value, unit |-> data.temperature_unit])
    /\ writes' = writes + 1
    /\ UNCHANGED <<hasCreds, authToken, created, data, timer, dev,
                   loginCount, n403, everLoaded>>

\* updateUserSettings(data), up to its awaited fetch
updateUserSettings(w, d) ==
    SendsPatch(w, "units", "user", d, NoArgs)

\* TemperatureDisplayUnits onSet
SetTemperatureDisplayUnits(w) ==
    /\ CanCallUnits(w)
    /\ \E value \in DisplayUnits :
          updateUserSettings(w,
              [temperature_unit |-> IF value = FAHRENHEIT THEN "F" ELSE "C"])
    /\ writes' = writes + 1
    /\ UNCHANGED <<hasCreds, authToken, created, data, timer, dev,
                   loginCount, n403, everLoaded>>

\* updateUserSettings after the PATCH response: it returns.
UserSettingsOK(w) ==
    LET r == task[w] IN
    /\ r.pc = "responded"
    /\ r.req.kind = "user"
    /\ fetchOutcome(r.resp.status) = "return"
    /\ Ends(w, OK)
    /\ UNCHANGED <<hasCreds, authToken, created, data, dev, writes,
                   loginCount, n403, everLoaded>>

\* ------------------------------------------------------------- specification

\* The state after construction, with these set handlers registered.
Starts(handlers) ==
    /\ hasCreds \in BOOLEAN
    /\ authToken = NullToken
    /\ created = FALSE
    /\ data = NullData
    /\ timer = 0
    /\ dev = InitialDevice
    /\ task = [t \in {"main", "poll"} \cup handlers |-> IdleTask]
    /\ writes = 0
    /\ loginCount = 0
    /\ n403 = 0
    /\ everLoaded = FALSE

Init == Starts(Writers)

Next ==
    \/ DidFinishLaunching
    \/ ListOK
    \/ TimerFires
    \/ \E t \in Tasks : ServerRespond(t)
    \/ \E t \in Tasks : FetchThrows(t)
    \/ \E t \in Tasks : Fetch403(t)
    \/ \E t \in Tasks : Reauthorize(t)
    \/ \E t \in Tasks : LoginOK(t)
    \/ \E t \in Tasks : AfterAuthorize(t)
    \/ \E t \in Tasks : StatusOK(t)
    \/ \E t \in Tasks : AfterUpdateStatus(t)
    \/ \E w \in Writers : SetTargetHeatingCoolingState(w)
    \/ \E w \in Writers : SetOn(w)
    \/ \E w \in Writers : PatchOK(w)

Spec == Init /\ [][Next]_vars


\* Startup and the poll loop alone, with no budget on the server's 403s.
NextPolling ==
    \/ DidFinishLaunching
    \/ ListOK
    \/ TimerFires
    \/ \E t \in {"main", "poll"} : ServerRespondAny(t)
    \/ \E t \in {"main", "poll"} : FetchThrows(t)
    \/ \E t \in {"main", "poll"} : Fetch403(t)
    \/ \E t \in {"main", "poll"} : Reauthorize(t)
    \/ \E t \in {"main", "poll"} : LoginOK(t)
    \/ \E t \in {"main", "poll"} : AfterAuthorize(t)
    \/ StatusOK("poll")
    \/ AfterUpdateStatus("poll")

\* Every request is answered in the end, every continuation runs, and a
\* pending timer fires: the event loop starves nothing.
PollingFairness ==
    /\ WF_vars(DidFinishLaunching)
    /\ WF_vars(ListOK)
    /\ WF_vars(TimerFires)
    /\ WF_vars(StatusOK("poll"))
    /\ WF_vars(AfterUpdateStatus("poll"))
    /\ \A t \in {"main", "poll"} :
          /\ WF_vars(ServerRespondAny(t))
          /\ WF_vars(FetchThrows(t))
          /\ WF_vars(Fetch403(t))
          /\ WF_vars(Reauthorize(t))
          /\ WF_vars(LoginOK(t))
          /\ WF_vars(AfterAuthorize(t))

LiveSpec == Init /\ [][NextPolling]_vars /\ PollingFairness


\* The server answers 403 to a handler's PATCH only.
Only403ForWrites ==
    \A t \in Tasks :
        task[t].resp.status = 403 => task[t].req.kind \in {"temp", "night", "user"}

ServerRespondWrites(t) == Respond(t, TRUE) /\ Only403ForWrites'

\* The program with the target-temperature, display-unit and brightness
\* handlers.
NextUnits ==
    \/ DidFinishLaunching
    \/ ListOK
    \/ TimerFires
    \/ \E t \in Tasks : ServerRespondWrites(t)
    \/ \E t \in Tasks : FetchThrows(t)
    \/ \E t \in Tasks : Fetch403(t)
    \/ \E t \in Tasks : Reauthorize(t)
    \/ \E t \in Tasks : LoginOK(t)
    \/ \E t \in Tasks : AfterAuthorize(t)
    \/ \E t \in Tasks : StatusOK(t)
    \/ \E t \in Tasks : AfterUpdateStatus(t)
    \/ \E w \in Writers : SetBrightness(w)
    \/ \E w \in Writers : SetTargetTemperature(w)
    \/ \E w \in Writers : SetTemperatureDisplayUnits(w)
    \/ \E w \in Writers : PatchOK(w)
    \/ \E w \in Writers : UserSettingsOK(w)

UnitSpec == Init /\ [][NextUnits]_vars

\* The bodies of a 200 that are JSON but lack what the code reads: the body
\* null, a login body without data.token or without data, a list body and a
\* status body without data.
IncompleteBodies(kind) ==
    IF kind = "login" THEN {[token |-> Undefined], NoDataField, NullJson}
    ELSE IF kind = "list" THEN {NoDataField, NullJson}
    ELSE IF kind = "status" THEN {UndefinedData, NullJson}
    ELSE {}

\* The server answers 200 with such a body.
RespondIncomplete(t) ==
    LET r == task[t] IN
    /\ r.pc = "sent"
    /\ \E b \in IncompleteBodies(r.req.kind) :
          task' = [task EXCEPT ![t] =
                      [r EXCEPT !.pc = "responded",
                                !.resp = [status |-> 200, body |-> b]]]
    /\ UNCHANGED <<hasCreds, authToken, created, data, timer, dev, writes,
                   loginCount, n403, everLoaded>>

\* The server answers a status GET with 200 and a body whose data is null.
RespondNull(t) ==
    LET r == task[t] IN
    /\ r.pc = "sent"
    /\ r.req.kind = "status"
    /\ task' = [task EXCEPT ![t] =
                  [r EXCEPT !.pc = "responded",
                            !.resp = [status |-> 200, body |-> NullData]]]
    /\ UNCHANGED <<hasCreds, authToken, created, data, timer, dev, writes,
                   loginCount, n403, everLoaded>>

\* Startup and the poll loop against a server that may also do that.
NextNullable ==
    \/ NextPolling
    \/ RespondNull("poll")
    \/ \E t \in {"main", "poll"} : RespondIncomplete(t)

NullableSpec == Init /\ [][NextNullable]_vars

\* Night-light handlers that HomeKit calls while another one is running.
CanCallRace(w) ==
    /\ created
    /\ writes < MaxRaceWrites
    /\ task[w].pc \in {"idle", "done"}

SetNightLight(w, settings) ==
    /\ CanCallRace(w)
    /\ updateNightLightSettings(w, settings)
    /\ writes' = writes + 1
    /\ UNCHANGED <<hasCreds, authToken, created, data, timer, dev,
                   loginCount, n403, everLoaded>>

\* hsvColor: convert.rgb.hsv of the snapshot's colour
hsvColor(d) == rgbToHsv(d.night_light_setting.color)

\* Hue onSet: the colour with this hue and the snapshot's saturation and value
HueColor(d, h) ==
    LET c == hsvColor(d) IN hsvToRgb([h |-> h, s |-> c.s, v |-> c.v])

\* Saturation onSet: the colour with this saturation and the snapshot's hue
\* and value
SaturationColor(d, sat) ==
    LET c == hsvColor(d) IN hsvToRgb([h |-> c.h, s |-> sat, v |-> c.v])

\* The colours the snapshot takes in a run, and what the two handlers make of
\* each, computed once.
Colors == {[r |-> 1, g |-> 2, b |-> 3], [r |-> 1, g |-> 3, b |-> 1]}
HueColors == [c \in Colors, h \in Hues |->
                 HueColor([night_light_setting |-> [color |-> c]], h)]
SaturationColors == [c \in Colors, sat \in Saturations |->
                        SaturationColor([night_light_setting |-> [color |-> c]], sat)]

\* A colour handler: hsvColor() reads the snapshot through guardedOnlineData,
\* then updateNightLightSettings({ color }) runs.
SetColor(w, colors, value) ==
    /\ CanCallRace(w)
    /\ LET g == guardedOnlineData(data) IN
       IF g.err = BUSY THEN Throws(w, "nightlight", BUSY)
       ELSE IF g.value \in {NullData, UndefinedData} THEN
           Throws(w, "nightlight", TYPE)
       ELSE updateNightLightSettings(w,
               [color |-> colors[g.value.night_light_setting.color, value]])
    /\ writes' = writes + 1
    /\ UNCHANGED <<hasCreds, authToken, created, data, timer, dev,
                   loginCount, n403, everLoaded>>

\* Hue onSet
SetHue(w) == \E h \in Hues : SetColor(w, HueColors, h)

\* Saturation onSet
SetSaturation(w) == \E sat \in Saturations : SetColor(w, SaturationColors, sat)

RaceOn(w) ==
    \E v \in OnValues : SetNightLight(w, [on |-> v, off |-> ~v, auto |-> FALSE])

RaceBrightness(w) ==
    \E b \in Brightnesses : SetNightLight(w, [brightness |-> b])

\* The server answers 200 or 500 only.
CalmServer == \A t \in Tasks : task[t].resp.status \in {-1, 200, 500}

ServerRespondCalm(t) == Respond(t, TRUE) /\ CalmServer'

NextRace ==
    \/ DidFinishLaunching
    \/ ListOK
    \/ TimerFires
    \/ \E t \in Tasks : ServerRespondCalm(t)
    \/ \E t \in Tasks : FetchThrows(t)
    \/ \E t \in Tasks : LoginOK(t)
    \/ \E t \in Tasks : AfterAuthorize(t)
    \/ \E t \in Tasks : StatusOK(t)
    \/ \E t \in Tasks : AfterUpdateStatus(t)
    \/ \E w \in RaceWriters : RaceOn(w)
    \/ \E w \in RaceWriters : RaceBrightness(w)
    \/ \E w \in RaceWriters : SetHue(w)
    \/ \E w \in RaceWriters : SetSaturation(w)
    \/ \E w \in RaceWriters : PatchOK(w)

RaceSpec == Starts(RaceWriters) /\ [][NextRace]_vars

\* ------------------------------------------------------------- claims

\* Task t takes a step on the response it holds.
Handles(t) == task[t].pc = "responded" /\ task'[t] # task[t]

\* C1: one call of platform.fetch triggers at most one re-login and sends its
\* request at most twice: a 403 on the request sent after the re-login ends
\* the call instead of starting another login and another retry.
C1_AtMostOneRelogin ==
    \A t \in Tasks : task[t].sends <= 2 /\ task[t].logins <= 1

\* C2: when a request is answered 403, the re-login succeeds and the request
\* sent again is answered 200, and that 403 is the only one of the run, then
\* fetch returns that response to its caller, the request sent again carried
\* the token the re-login received, and authorize() has run exactly twice.
C2_ReloginThenRetry ==
    [][\A t \in Tasks :
          ( /\ Handles(t)
            /\ task[t].depth = 0
            /\ task[t].sends = 2
            /\ task[t].logins = 1
            /\ task[t].resp.status = 200
            /\ n403 = 1 )
          => /\ task'[t].result \notin {COMM, AUTH}
             /\ task'[t].pc # "expired"
             /\ task[t].req.auth = task[t].tok
             /\ task[t].tok \in {TokenNames[i] : i \in 1..Len(TokenNames)}
             /\ loginCount = 2
             /\ loginCount' = 2]_vars

C2_Witness ==
    \E t \in Tasks :
        /\ task[t].pc = "responded"
        /\ task[t].depth = 0
        /\ task[t].sends = 2
        /\ task[t].logins = 1
        /\ task[t].resp.status = 200
        /\ task[t].req.auth = "T2"
        /\ n403 = 1
        /\ loginCount = 2

\* C3: a response with status 401 ends the call with INSUFFICIENT_AUTHORIZATION,
\* which is not SERVICE_COMMUNICATION_FAILURE; no login is started, the token
\* is left alone and nothing is sent again.
C3_UnauthorizedFails ==
    [][\A t \in Tasks :
          (Handles(t) /\ task[t].resp.status = 401)
          => /\ task'[t].result = AUTH
             /\ task'[t].result # COMM
             /\ task'[t].pc \in {"idle", "done"}
             /\ loginCount' = loginCount
             /\ authToken' = authToken]_vars

C3_Witness ==
    \E t \in Tasks : task[t].result = AUTH /\ task[t].pc \in {"idle", "done"}

\* C4: the snapshot changes only when one status GET answered 200 is handled;
\* handling one makes the snapshot the whole data of that one response; an
\* updateStatus() that fails in any way leaves the snapshot as it was.
C4_SnapshotFromOnePoll ==
    [][ /\ data' # data =>
            \E t \in Tasks :
                /\ Handles(t)
                /\ task[t].req.kind = "status"
                /\ task[t].resp.status = 200
                /\ task[t].resp.body \notin {BadJson, NullJson}
                /\ data' = task[t].resp.body
        /\ \A t \in Tasks :
              ( /\ Handles(t)
                /\ task[t].req.kind = "status"
                /\ task[t].resp.status = 200
                /\ task[t].resp.body \notin {BadJson, NullJson} )
              => data' = task[t].resp.body
        /\ \A t \in Tasks :
              ( /\ task[t].base.kind = "status"
                /\ task'[t].pc \in {"idle", "done"}
                /\ task'[t].result \in Errors )
              => data' = data ]_vars

\* A poll installed a device record and the latest poll failed.
C4_Witness ==
    /\ data # NullData
    /\ data = dev
    /\ task["poll"].pc = "idle"
    /\ task["poll"].result \in Errors

\* C5: for a created accessory the next poll is scheduled again and again.
C5_PollsForever == created ~> (timer > 0)

\* A thermostat or night-light handler has returned to its caller.
WriteReturned(r) ==
    r.pc = "done" /\ r.result = OK /\ r.op \in {"thermostat", "nightlight"}

\* C6: when a thermostat or night-light write has returned, the snapshot is
\* the data of a status GET answered after the write's PATCH was acknowledged,
\* and it stays so: the PATCH being the last change of the device record, the
\* snapshot is that record, never the older one a status GET answered before
\* the PATCH brought.
C6_ReadAfterWrite ==
    \A w \in Writers : WriteReturned(task[w]) => data = dev

\* C7: until an updateStatus() has completed, guardedOnlineData throws
\* RESOURCE_BUSY, and so does every handler that reads through it.
C7_NotReadyBeforeFirstPoll ==
    ~everLoaded =>
        /\ guardedOnlineData(data).err = BUSY
        /\ \A w \in Writers :
              task[w].op = "nightlight" =>
                  task[w].pc = "done" /\ task[w].result = BUSY

C7_Witness ==
    /\ ~everLoaded
    /\ created
    /\ \E w \in Writers : task[w].op = "nightlight" /\ task[w].result = BUSY

\* C8: the night-light PATCH carries every field of the snapshot's night-light
\* settings as they were when the handler was called, except the fields the
\* handler sets; the handler refreshes once, after the PATCH succeeded, and
\* only then returns.
C8_NightLightPatch ==
    \A w \in Writers :
        task[w].op = "nightlight" =>
            /\ task[w].req.kind = "night" =>
                  LET a == task[w].args
                      body == task[w].req.body IN
                  /\ DOMAIN body = DOMAIN a.nl
                  /\ \A f \in DOMAIN a.nl :
                        body[f] = IF f \in DOMAIN a.settings
                                  THEN a.settings[f] ELSE a.nl[f]
            /\ task[w].stage = "patch" => task[w].refreshes = 0
            /\ task[w].stage = "refresh" => task[w].refreshes = 1
            /\ (task[w].pc = "done" /\ task[w].result = OK) =>
                  task[w].refreshes = 1

C8_Witness ==
    \E w \in Writers :
        /\ task[w].op = "nightlight"
        /\ task[w].pc = "done"
        /\ task[w].result = OK
        /\ task[w].refreshes = 1
        /\ data # NullData
        /\ data.night_light_setting # InitialNightLight

\* C9: authorize() sends one login request and starts no further authorize()
\* when that request fails, with 403 as with any other status.
C9_LoginDoesNotRetry ==
    \A t \in Tasks : task[t].depth <= 1

\* C10 as stated: a 401 as well as a 403 clears the held token and starts a
\* login.
C10_ClearedOn401And403 ==
    [][\A t \in Tasks :
          (Handles(t) /\ task[t].resp.status \in {401, 403} /\ Held(authToken))
          => authToken' = EmptyToken /\ task'[t].pc = "expired"]_vars

\* C10: no token is held before the first login; a login answered 200 with a
\* body that parses stores the token of its response; a 403 clears the token
\* and the call goes on to a new login; a 401 leaves the token alone and
\* starts no login.
C10_TokenLifecycle ==
    [][ /\ loginCount = 0 => authToken = NullToken
        /\ \A t \in Tasks :
              /\ (Handles(t) /\ task[t].resp.status = 403)
                    => authToken' = EmptyToken /\ task'[t].pc = "expired"
              /\ (task[t].pc = "expired" /\ task'[t] # task[t])
                    => /\ task'[t].pc = "sent"
                       /\ task'[t].req.kind = "login"
                       /\ loginCount' = Inc(loginCount)
                       /\ authToken' = EmptyToken
              /\ (Handles(t) /\ task[t].resp.status = 401)
                    => /\ authToken' = authToken
                       /\ loginCount' = loginCount
                       /\ task'[t].pc # "expired"
              /\ ( /\ Handles(t)
                   /\ task[t].req.kind = "login"
                   /\ task[t].resp.status = 200
                   /\ task[t].resp.body \notin {BadJson, NoDataField, NullJson} )
                    => authToken' = task[t].resp.body.token ]_vars

\* After a 403 the token has been acquired again and the request sent with it.
C10_Witness ==
    \E t \in Tasks :
        /\ task[t].logins = 1
        /\ task[t].depth = 0
        /\ task[t].pc = "sent"
        /\ Held(authToken)
        /\ task[t].req.auth = authToken

\* C11: fetch hands a response to its caller only when the status is exactly
\* 200; a status other than 200, 401 and 403, a 2xx such as 204 included, ends
\* the call with SERVICE_COMMUNICATION_FAILURE: no login starts, the token is
\* left alone and nothing is sent again.
C11_Only200Returns ==
    [][\A t \in Tasks :
          /\ (Handles(t) /\ task[t].resp.status \in {204, 500})
                => /\ task'[t].result = COMM
                   /\ task'[t].pc \in {"idle", "done"}
                   /\ loginCount' = loginCount
                   /\ authToken' = authToken
          /\ ( /\ Handles(t)
               /\ task'[t].pc # "expired"
               /\ task'[t].result \notin {COMM, AUTH} )
                => task[t].resp.status = 200]_vars

\* A write's PATCH is answered 204 after an earlier poll ended with the
\* communication failure.
C11_Witness ==
    /\ task["poll"].pc = "idle"
    /\ task["poll"].result = COMM
    /\ \E w \in Writers :
          /\ task[w].pc = "responded"
          /\ task[w].resp.status = 204
          /\ task[w].stage = "patch"

\* C12: while a login request that authorize() sent is waiting for its
\* response, the held token is the empty sentinel, whatever the other calls
\* do in the meantime, so a request sent in that window carries no token.
C12_EmptyWhileLoginInProgress ==
    \A t \in Tasks :
        ( /\ task[t].pc = "sent"
          /\ task[t].req.kind = "login"
          /\ task[t].req.auth = NoAuth )
        => authToken = EmptyToken

\* C13: the PATCH of a target-temperature write carries the Celsius value
\* HomeKit wrote, converted to Fahrenheit when the snapshot's unit at the call
\* was "F" and as it is when it was "C"; the unit the device has by then plays
\* no part, and the request sent again after a re-login carries the same body.
C13_SnapshotUnitDecides ==
    \A w \in Writers :
        (task[w].req.kind = "temp" /\ "value" \in DOMAIN task[w].args) =>
            LET a == task[w].args IN
            /\ a.unit = "F" =>
                  task[w].req.body = [temperature |-> cToF(a.value)]
            /\ a.unit = "C" =>
                  task[w].req.body = [temperature |-> a.value]
            /\ task[w].base.body = task[w].req.body

\* The device's unit was set to "C" after the last poll; the write converts
\* to Fahrenheit all the same, and the device has taken the value.
C13_Witness ==
    \E w \in Writers :
        /\ task[w].pc = "responded"
        /\ task[w].resp.status = 200
        /\ task[w].req.kind = "temp"
        /\ task[w].args = [value |-> Whole(70), unit |-> "F"]
        /\ task[w].req.body = [temperature |-> Whole(158)]
        /\ data.temperature_unit = "F"
        /\ dev.temperature_unit = "C"
        /\ dev.current_temperature = Whole(158)

\* The doubles 69.8 and 69.80000000000001, one unit in the last place apart.
Double69_8 == [neg |-> FALSE, hi |-> 73190604, lo |-> 53687091, exp |-> -46]
Double69_80000000000001 ==
    [neg |-> FALSE, hi |-> 73190604, lo |-> 53687092, exp |-> -46]

\* C14 as stated: with the snapshot's unit "F" the value is sent as it is
\* (70 gives 70), with "C" it is converted to Fahrenheit (21 gives 69.8).
C14_ConvertsWhenCelsius ==
    \A w \in Writers :
        (task[w].req.kind = "temp" /\ "value" \in DOMAIN task[w].args) =>
            LET a == task[w].args
                sent == task[w].req.body.temperature IN
            /\ (a.unit = "F" /\ a.value = Whole(70)) => sent = Whole(70)
            /\ (a.unit = "C" /\ a.value = Whole(21)) => sent = Double69_8

\* C14: with the snapshot's unit "F" the Celsius value is converted with
\* c * (9 / 5) + 32 in double arithmetic (70 gives 158, 21 gives
\* 69.80000000000001 and not 69.8), with "C" it is sent as it is (21 gives
\* 21, 70 gives 70).
C14_ConvertsWhenFahrenheit ==
    \A w \in Writers :
        (task[w].req.kind = "temp" /\ "value" \in DOMAIN task[w].args) =>
            LET a == task[w].args
                sent == task[w].req.body.temperature IN
            /\ (a.unit = "F" /\ a.value = Whole(70)) => sent = Whole(158)
            /\ (a.unit = "F" /\ a.value = Whole(21)) =>
                  sent = Double69_80000000000001 /\ sent # Double69_8
            /\ (a.unit = "C" /\ a.value = Whole(21)) => sent = Whole(21)
            /\ (a.unit = "C" /\ a.value = Whole(70)) => sent = Whole(70)

\* A display-unit write and a poll made the snapshot's unit "C"; the write of
\* 21 degrees that followed has been answered, sent as it was.
C14_Witness ==
    \E w \in Writers :
        /\ task[w].pc = "responded"
        /\ task[w].req.kind = "temp"
        /\ task[w].args = [value |-> Whole(21), unit |-> "C"]
        /\ task[w].req.body = [temperature |-> Whole(21)]
        /\ data.temperature_unit = "C"
        /\ writes = 2

\* C15: when the fetch that carries a handler's PATCH fails, the handler
\* ends with that failure: the caller gets the error fetch threw, nothing more
\* is sent for the call, no updateStatus() runs and the snapshot is as it was.
C15_FailedWriteEnds ==
    [][\A w \in Writers :
          ( /\ Handles(w)
            /\ task[w].stage = "patch"
            /\ task[w].resp.status \notin {200, 403} )
          => /\ task'[w].result =
                    IF task[w].resp.status = 401 THEN AUTH ELSE COMM
             /\ task'[w].pc = "done"
             /\ task'[w].req = NoReq
             /\ task'[w].refreshes = 0
             /\ data' = data]_vars

\* A display-unit write has failed after an earlier write went through.
C15_Witness ==
    \E w \in Writers :
        /\ task[w].pc = "done"
        /\ task[w].op = "units"
        /\ task[w].result = COMM
        /\ task[w].refreshes = 0
        /\ writes = 2
        /\ everLoaded

\* C16: a display-unit write is one call of fetch, a PATCH of the user
\* settings: the call sends no status GET (only that PATCH and the login
\* fetch makes for it after a 403), it ends when the PATCH is answered 200 and
\* no step of it changes the snapshot, its temperature_unit included.
C16_UnitWriteOnlyPatches ==
    [][\A w \in Writers :
          /\ task'[w].op = "units" =>
                /\ task'[w].base.kind \in {"user", "none"}
                /\ task'[w].req.kind \in {"user", "login", "none"}
                /\ task'[w].refreshes = 0
                /\ task'[w].logins = 0 => task'[w].sends <= 1
          /\ (task'[w].op = "units" /\ task'[w] # task[w]) => data' = data
          /\ ( /\ Handles(w)
               /\ task[w].req.kind = "user"
               /\ task[w].resp.status = 200 )
                => task'[w].pc = "done" /\ task'[w].result = OK]_vars

\* The write has returned, the device has the new unit and the snapshot still
\* has the old one.
C16_Witness ==
    \E w \in Writers :
        /\ task[w].op = "units"
        /\ task[w].pc = "done"
        /\ task[w].result = OK
        /\ dev.temperature_unit = "C"
        /\ data # NullData
        /\ data.temperature_unit = "F"

\* C17: a night-light call may start while another one is running; when the
\* snapshot's night-light settings are still those the first call read, the
\* second call's PATCH carries its own new values and, for every field only
\* the first call changed, the old value the first call found.
C17_SecondCallReadsOldSnapshot ==
    [][\A w \in RaceWriters, v \in RaceWriters :
          ( /\ w # v
            /\ task[w].op = "nightlight"
            /\ task[w].pc \in {"sent", "responded"}
            /\ data # NullData
            /\ data.night_light_setting = task[w].args.nl
            /\ task[v].pc \in {"idle", "done"}
            /\ task'[v] # task[v] )
          => LET first == task[w].args
                 second == task'[v].args
                 body == task'[v].req.body IN
             /\ task'[v].pc = "sent"
             /\ task'[v].req.kind = "night"
             /\ second.nl = first.nl
             /\ \A f \in DOMAIN second.settings : body[f] = second.settings[f]
             /\ \A f \in (DOMAIN first.settings) \ (DOMAIN second.settings) :
                   body[f] = first.nl[f]]_vars

\* The first call's PATCH (light off) was acknowledged and its refresh is
\* under way; the device has now taken the second call's PATCH (brightness
\* 50, light on as in the old snapshot): the first call's change is lost.
C17_Witness ==
    \E w \in RaceWriters, v \in RaceWriters :
        /\ task[w].stage = "refresh"
        /\ task[w].args.settings = [on |-> FALSE, off |-> TRUE, auto |-> FALSE]
        /\ task[v].pc = "responded"
        /\ task[v].req.kind = "night"
        /\ task[v].resp.status = 200
        /\ task[v].args.settings = [brightness |-> 50]
        /\ task[v].args.nl = task[w].args.nl
        /\ dev.night_light_setting =
              [InitialNightLight EXCEPT !.brightness = 50]

\* C18: once the snapshot is present it stays present: no later poll, whatever
\* it returns and however it fails, makes guardedOnlineData throw
\* RESOURCE_BUSY again.
C18_LoadedStaysLoaded ==
    [][data # NullData =>
          /\ data' # NullData
          /\ guardedOnlineData(data').err # BUSY]_vars

\* C19: the device list is requested only in the step that follows the return
\* of the initial authorize(), whose login was answered 200, and with the
\* token held by then, an accessory is created only from the list's
\* answer, and a status GET is sent only for a created accessory; without
\* username and password nothing ever runs, and a startup that failed has
\* created no accessory and leaves poll and timer untouched.
C19_StartupOrder ==
    [][ /\ (task'["main"].req.kind = "list" /\ task["main"].req.kind # "list")
            => /\ task["main"].pc = "authorized"
               /\ task["main"].req.kind = "login"
               /\ task["main"].resp.status = 200
               /\ task["main"].depth = 1
               /\ loginCount >= 1
               /\ task'["main"].req.auth = AuthHeader(authToken)
        /\ (created' /\ ~created)
            => /\ Handles("main")
               /\ task["main"].req.kind = "list"
               /\ task["main"].resp.status = 200
        /\ \A t \in Tasks : task'[t].req.kind = "status" => created'
        /\ ~created' => task'["poll"] = IdleTask /\ timer' = 0
        /\ ~hasCreds' =>
              /\ \A t \in Tasks : task'[t] = IdleTask
              /\ loginCount' = 0
              /\ ~created'
        /\ (task'["main"].pc = "done" /\ task'["main"].result \in Errors)
            => ~created' ]_vars

\* The accessory exists and its first status GET is out, with the token of
\* the one login that ran.
C19_Witness ==
    /\ created
    /\ loginCount = 1
    /\ task["main"].pc = "done"
    /\ task["main"].result = OK
    /\ task["poll"].pc = "sent"
    /\ task["poll"].req = Request("T1", "status", NoBody)

\* C20: at most one timer is pending and none while the timer-driven status
\* GET is outstanding; a timer is armed only in the step in which the poll's
\* updateStatus() completes or fails; no step of a set handler, its refresh
\* included, arms a timer.
C20_OneTimerOnePoll ==
    [][ /\ timer' <= 1
        /\ timer' > 0 => task'["poll"].pc = "idle"
        /\ timer' > timer =>
              /\ task["poll"].pc \in {"responded", "installed"}
              /\ task'["poll"] # task["poll"]
              /\ task["poll"].base.kind = "status"
              /\ task'["poll"].pc = "idle"
              /\ timer' = timer + 1
        /\ \A w \in Writers : task'[w] # task[w] => timer' = timer ]_vars

\* A write's refresh and the timer-driven status GET are out together, and
\* no timer is pending.
C20_Witness ==
    /\ timer = 0
    /\ task["poll"].pc = "sent"
    /\ task["poll"].req.kind = "status"
    /\ \E w \in Writers :
          /\ task[w].stage = "refresh"
          /\ task[w].pc = "sent"
          /\ task[w].req.kind = "status"

====
